---------------------------- MODULE Spec2Model ----------------------------
(***************************************************************************)
(* Voice client of Polinanime/sever-test (frontend).                       *)
(*                                                                         *)
(* Two user interfaces exist in the sources and exactly one is mounted:    *)
(*   - App.tsx, which renders the useWebRTC hook (hooks/useWebRTC.ts):     *)
(*     connection session, microphone capture, playback queue, the         *)
(*     history reconciler and App's transcript;                            *)
(*   - components/AgentChat.tsx, a self-contained chat with its own        *)
(*     socket, message log and pending partial message.                    *)
(*                                                                         *)
(* A text is a sequence of tokens: a token is an atom of non-whitespace    *)
(* characters ("Hel", "lo", "Hi"), the whitespace token " ", or PCC, the   *)
(* token standing for the literal phrase "Previous conversation context".  *)
(* The JavaScript value "" / undefined of a text field is the empty        *)
(* sequence (both are falsy in every test the code makes).                 *)
(***************************************************************************)
EXTENDS Integers, Sequences, FiniteSets, TLC

\* ------------------------------------------------------------------ bounds
MaxConnects == 2     \* connect() calls of a client of the hook in one behaviour
MaxCalls == 1        \* calls started from App, or sessions that send frames
MaxChunks == 3       \* decodable audio chunks received in one behaviour
MaxMessages == 3     \* length of AgentChat's message log
MaxPartial == 2      \* deltas accumulated in the pending partial message
MaxBlocks == 2       \* audio blocks captured in one behaviour
MaxFrames == 2       \* frames sent in one behaviour
MaxLog == 2          \* length of App's transcript up to which a text can be typed

\* ------------------------------------------------------------------- texts
SP == " "
PCC == "Previous conversation context"
Hello == <<"Hel", "lo">>
Hi == <<"Hi">>
NoText == <<>>

Truthy(s) == Len(s) > 0

RECURSIVE TrimLeft(_)
TrimLeft(s) == IF s # <<>> /\ Head(s) = SP THEN TrimLeft(Tail(s)) ELSE s

RECURSIVE TrimRight(_)
TrimRight(s) ==
    IF s # <<>> /\ s[Len(s)] = SP THEN TrimRight(SubSeq(s, 1, Len(s) - 1)) ELSE s

\* String.prototype.trim
Trim(s) == TrimRight(TrimLeft(s))

\* String.prototype.includes, for a one-token needle
Includes(s, tok) == \E i \in 1..Len(s) : s[i] = tok

\* ------------------------------------------------------------ history items
NoId == ""
ItemIds == {"1", "2"}

Part(type, text, transcript) ==
    [type |-> type, text |-> text, transcript |-> transcript]

Contents ==
    { << Part("audio", NoText, Hello) >>,
      << Part("audio", <<SP>>, <<SP>>) >>,               \* nothing left after trimming
      << Part("text", Hi, NoText), Part("audio", NoText, Hello) >> }

Item(id, type, role, content) ==
    [item_id |-> id, type |-> type, role |-> role, content |-> content]

Items ==
    { Item("2", "message", "assistant", c) : c \in Contents }
    \cup { Item("1", "message", "assistant", << Part("audio", NoText, Hello) >>),
           Item("1", "message", "user", << Part("text", Hi, NoText) >>),
           Item("1", "function_call", "assistant", << Part("text", Hi, NoText) >>) }

\* the history arrays an event may carry
Histories ==
    { <<>> } \cup { <<i>> : i \in Items } \cup { <<i, j>> : i \in Items, j \in Items }

\* an item without a type field, and the array of two such items that a
\* history_loaded event may carry
NoType == ""
HelloThere == <<"Hel", "lo", SP, "there">>
ExampleHistory ==
    << Item("1", NoType, "user", << Part("text", Hi, NoText) >>),
       Item("2", NoType, "assistant", << Part("audio", NoText, HelloThere) >>) >>

\* the last_assistant_message values an event may carry (NoText: field absent)
LastMessages == { NoText, Hello }

\* the history arrays an event carries along with a last_assistant_message
LastHistories == { << i >> : i \in Items }

\* ---------------------------------------------------------------- variables
VARIABLES
    mounted,                  \* "App" (with useWebRTC) or "AgentChat"
    \* useWebRTC: connection session and capture
    isConnected,              \* useState(false)
    nConnect,                 \* connect() calls so far; call k creates socket k
    readyState,               \* readyState of socket k ("NONE": not created)
    wsRef,                    \* 0 (null) or the socket wsRef.current holds
    connectPc,                \* where call k of handleStartCall/connect stands
    streamRef,                \* 0 (null) or the call whose MediaStream it holds
    audioContextRef,          \* 0 (null) or the call whose capture context it holds
    scriptProcessorRef,       \* 0 (null) or the call whose processor it holds
    micLive,                  \* calls whose microphone tracks are not stopped
    captureLive,              \* calls whose processor is still connected
    isMuted,                  \* isMutedRef.current
    nBlocks,                  \* audio blocks captured so far; block ids are 1..nBlocks
    sent,                     \* the frames handed to WebSocket.send, in order
    \* useWebRTC: reconciler
    processedItems,           \* processedItemsRef.current
    \* useWebRTC: playback
    playbackAudioContextRef,  \* "null" or "ctx"
    gainNodeRef,              \* "null" or "gain"
    gainValue,                \* gain.value of the node gainNodeRef holds
    isBotMuted,               \* isBotMutedRef.current
    audioQueue,               \* audioQueueRef.current, a sequence of chunk ids
    isPlaying,                \* isPlayingRef.current
    inflight,                 \* started sources whose onended has not run
    nChunks,                  \* chunks decoded so far; chunk ids are 1..nChunks
    \* App
    isCallActive,
    transcript,
    transcriptMap,            \* keys of transcriptMapRef.current
    \* AgentChat
    chatReadyState,
    chatIsConnected,
    agentStatus,
    messages,
    currentAssistantMessage,
    \* history variables (not program state)
    last,                     \* the call of the hook's client, audio message or
                              \* playback callback that ran last
    enqueued,                 \* chunks pushed on audioQueue since the last disconnect
    started                   \* chunks started since the last disconnect

sendVars == << isMuted, nBlocks, sent >>
connVars == << isConnected, nConnect, readyState, wsRef, connectPc, streamRef,
               audioContextRef, scriptProcessorRef, micLive, captureLive, sendVars >>
playVars == << playbackAudioContextRef, gainNodeRef, gainValue, isBotMuted,
               audioQueue, isPlaying, inflight, nChunks, enqueued, started >>
appVars == << isCallActive, transcript, transcriptMap >>
chatVars == << chatReadyState, chatIsConnected, agentStatus, messages,
               currentAssistantMessage >>
vars == << mounted, connVars, processedItems, playVars, appVars, chatVars, last >>

Calls == 1..MaxConnects

Init ==
    /\ mounted \in {"App", "AgentChat"}
    /\ isConnected = FALSE
    /\ nConnect = 0
    /\ readyState = [k \in Calls |-> "NONE"]
    /\ wsRef = 0
    /\ connectPc = [k \in Calls |-> "none"]
    /\ streamRef = 0
    /\ audioContextRef = 0
    /\ scriptProcessorRef = 0
    /\ micLive = {}
    /\ captureLive = {}
    /\ isMuted = FALSE
    /\ nBlocks = 0
    /\ sent = <<>>
    /\ processedItems = {}
    /\ playbackAudioContextRef = "null"
    /\ gainNodeRef = "null"
    /\ gainValue = 1
    /\ isBotMuted = FALSE
    /\ audioQueue = <<>>
    /\ isPlaying = FALSE
    /\ inflight = {}
    /\ nChunks = 0
    /\ isCallActive = FALSE
    /\ transcript = <<>>
    /\ transcriptMap = {}
    \* AgentChat's mount effect has called connectWebSocket()
    /\ chatReadyState = IF mounted = "AgentChat" THEN "CONNECTING" ELSE "NONE"
    /\ chatIsConnected = FALSE
    /\ agentStatus = "Disconnected"
    /\ messages = <<>>
    /\ currentAssistantMessage = NoText
    /\ last = "init"
    /\ enqueued = <<>>
    /\ started = <<>>


\* ------------------------------------------------- useWebRTC: the reconciler
\* one call of options.onTranscript(text, role).  item is not an argument of the
\* code: it records where the text came from (an item's id, or FromLast for
\* last_assistant_message) and no operation reads it.
Emit(text, role, item) == [text |-> text, role |-> role, item |-> item]
FromLast == "last_assistant_message"

\* processHistoryItem: the onTranscript calls it makes, in order
processHistoryItem(item) ==
    IF item.type = "message"
    THEN LET role == IF item.role = "user" THEN "user" ELSE "ai"
             calls[i \in 0..Len(item.content)] ==
                 IF i = 0 THEN <<>>
                 ELSE LET c == item.content[i] IN
                      IF Truthy(c.transcript) /\ Truthy(Trim(c.transcript))
                      THEN Append(calls[i - 1], Emit(c.transcript, role, item.item_id))
                      ELSE IF Truthy(c.text) /\ Truthy(Trim(c.text))
                      THEN Append(calls[i - 1], Emit(c.text, role, item.item_id))
                      ELSE calls[i - 1]
         IN  calls[Len(item.content)]
    ELSE <<>>

\* history_updated, priority 2: the forEach over data.history
RECURSIVE scanHistory(_, _)
scanHistory(history, seen) ==
    IF history = <<>> THEN [calls |-> <<>>, seen |-> seen]
    ELSE LET item == Head(history)
             fresh == item.item_id # NoId /\ item.item_id \notin seen
             rest == scanHistory(Tail(history),
                                 IF fresh THEN seen \cup {item.item_id} ELSE seen)
         IN  [calls |-> (IF fresh THEN processHistoryItem(item) ELSE <<>>) \o rest.calls,
              seen |-> rest.seen]

\* history_loaded: the forEach over data.history
RECURSIVE loadHistory(_)
loadHistory(history) ==
    IF history = <<>> THEN <<>>
    ELSE processHistoryItem(Head(history)) \o loadHistory(Tail(history))

\* ------------------------------------------------------ App: onTranscript
\* a variant of onTranscript that puts the new entry first
onTranscriptPrepending(st, e) ==
    LET key == << e.role, e.text >> IN
    IF key \notin st.transcriptMap
    THEN [transcriptMap |-> st.transcriptMap \cup {key},
          transcript |-> << [role |-> e.role, text |-> e.text, item |-> e.item] >>
                         \o st.transcript]
    ELSE st

\* one call of options.onTranscript(text, role) on App's state
onTranscript(st, e) ==
    LET key == << e.role, e.text >> IN
    IF key \notin st.transcriptMap
    THEN [transcriptMap |-> st.transcriptMap \cup {key},
          transcript |-> Append(st.transcript,
                                [role |-> e.role, text |-> e.text, item |-> e.item])]
    ELSE st

RECURSIVE onTranscripts(_, _)
onTranscripts(st, calls) ==
    IF calls = <<>> THEN st
    ELSE onTranscripts(onTranscript(st, Head(calls)), Tail(calls))

\* the ids of the carried items from which the code extracts text
Extractable(history) ==
    { history[i].item_id : i \in { j \in 1..Len(history) :
        history[j].item_id \in ItemIds /\ processHistoryItem(history[j]) # <<>> } }

\* the handler's onTranscript calls applied to App's state
Transcribed(calls) ==
    LET st == onTranscripts([transcriptMap |-> transcriptMap, transcript |-> transcript],
                            calls)
    IN  /\ transcriptMap' = st.transcriptMap
        /\ transcript' = st.transcript

\* a variant of the history_updated handler without the else: the array is
\* scanned even when last_assistant_message is present
HistoryUpdatedScanning(k, lam, history) ==
    /\ mounted = "App"
    /\ readyState[k] = "OPEN"
    /\ LET r == scanHistory(history, processedItems)
           first == IF Truthy(lam) THEN << Emit(lam, "ai", FromLast) >> ELSE <<>>
       IN  /\ Transcribed(first \o r.calls)
           /\ processedItems' = r.seen
    /\ UNCHANGED << mounted, connVars, playVars, isCallActive, chatVars, last >>

\* ws.onmessage of socket k, data.type === "history_updated"
HistoryUpdated(k, lam, history) ==
    /\ mounted = "App"
    /\ readyState[k] = "OPEN"
    /\ IF Truthy(lam)
       THEN /\ Transcribed(<< Emit(lam, "ai", FromLast) >>)
            /\ UNCHANGED processedItems
       ELSE LET r == scanHistory(history, processedItems) IN
            /\ Transcribed(r.calls)
            /\ processedItems' = r.seen
    /\ UNCHANGED << mounted, connVars, playVars, isCallActive, chatVars, last >>

\* ws.onmessage of socket k, data.type === "history_added"
HistoryAdded(k, item) ==
    /\ mounted = "App"
    /\ readyState[k] = "OPEN"
    /\ LET fresh == item.item_id # NoId /\ item.item_id \notin processedItems
           calls == IF fresh THEN processHistoryItem(item) ELSE <<>>
       IN  /\ Transcribed(calls)
           /\ processedItems' = IF fresh THEN processedItems \cup {item.item_id}
                                          ELSE processedItems
    /\ UNCHANGED << mounted, connVars, playVars, isCallActive, chatVars, last >>

\* ws.onmessage of socket k, data.type === "history_loaded"
HistoryLoaded(k, history) ==
    /\ mounted = "App"
    /\ readyState[k] = "OPEN"
    /\ Transcribed(loadHistory(history))
    /\ UNCHANGED << mounted, connVars, processedItems, playVars, isCallActive, chatVars,
                    last >>

\* ------------------------------------------- useWebRTC: connection session
\* connect() up to its await of getUserMedia (23-123), as call k
connect(k) ==
    /\ nConnect' = k
    /\ processedItems' = {}
    /\ readyState' = [readyState EXCEPT ![k] = "CONNECTING"]
    /\ wsRef' = k
    /\ connectPc' = [connectPc EXCEPT ![k] = "getUserMedia"]
    /\ UNCHANGED << sendVars, isConnected, streamRef, audioContextRef, scriptProcessorRef,
                    micLive, captureLive >>

\* a client of the hook calls connect()
Connect ==
    /\ mounted = "App"
    /\ nConnect < MaxConnects
    /\ connect(nConnect + 1)
    /\ last' = "connect"
    /\ UNCHANGED << mounted, playVars, appVars, chatVars >>

\* getUserMedia of call k resolves: connect() runs on to its end (124-156)
GetUserMediaResolved(k) ==
    /\ connectPc[k] = "getUserMedia"
    /\ streamRef' = k
    /\ audioContextRef' = k
    /\ scriptProcessorRef' = k
    /\ micLive' = micLive \cup {k}
    /\ captureLive' = captureLive \cup {k}
    /\ connectPc' = [connectPc EXCEPT ![k] = "returned"]
    /\ UNCHANGED << sendVars, mounted, isConnected, nConnect, readyState, wsRef, processedItems,
                    playVars, appVars, chatVars, last >>

\* getUserMedia of call k rejects: connect()'s catch (157-160); the call has
\* returned through its catch block
GetUserMediaRejected(k) ==
    /\ connectPc[k] = "getUserMedia"
    /\ isConnected' = FALSE
    /\ connectPc' = [connectPc EXCEPT ![k] = "caught"]
    /\ UNCHANGED << sendVars, mounted, nConnect, readyState, wsRef, streamRef, audioContextRef,
                    scriptProcessorRef, micLive, captureLive, processedItems,
                    playVars, appVars, chatVars, last >>

\* ws.onopen of socket k
WsOpen(k) ==
    /\ readyState[k] = "CONNECTING"
    /\ readyState' = [readyState EXCEPT ![k] = "OPEN"]
    /\ isConnected' = TRUE
    /\ UNCHANGED << sendVars, mounted, nConnect, wsRef, connectPc, streamRef, audioContextRef,
                    scriptProcessorRef, micLive, captureLive, processedItems,
                    playVars, appVars, chatVars, last >>

\* socket k closes (handshake failure, drop by the peer, or a close() completing):
\* ws.onclose of socket k
WsClose(k) ==
    /\ readyState[k] \in {"CONNECTING", "OPEN", "CLOSING"}
    /\ readyState' = [readyState EXCEPT ![k] = "CLOSED"]
    /\ isConnected' = FALSE
    /\ UNCHANGED << sendVars, mounted, nConnect, wsRef, connectPc, streamRef, audioContextRef,
                    scriptProcessorRef, micLive, captureLive, processedItems,
                    playVars, appVars, chatVars, last >>

\* WebSocket.close(): an open or connecting socket starts its closing handshake
closed(rs) == IF rs \in {"CONNECTING", "OPEN"} THEN "CLOSING" ELSE rs

\* a variant of the release calls without the null test on wsRef.current
teardownUnguarded ==
    (IF scriptProcessorRef # 0 THEN << "processor.disconnect" >> ELSE <<>>)
    \o (IF audioContextRef # 0 THEN << "audioContext.close" >> ELSE <<>>)
    \o (IF streamRef # 0 THEN << "tracks.stop" >> ELSE <<>>)
    \o (IF playbackAudioContextRef # "null" THEN << "playback.close" >> ELSE <<>>)
    \o << "ws.close" >>

\* a variant of the release calls that closes playback before stopping the tracks
teardownPlaybackFirst ==
    (IF scriptProcessorRef # 0 THEN << "processor.disconnect" >> ELSE <<>>)
    \o (IF audioContextRef # 0 THEN << "audioContext.close" >> ELSE <<>>)
    \o (IF playbackAudioContextRef # "null" THEN << "playback.close" >> ELSE <<>>)
    \o (IF streamRef # 0 THEN << "tracks.stop" >> ELSE <<>>)
    \o (IF wsRef # 0 THEN << "ws.close" >> ELSE <<>>)

\* the release calls disconnect() makes, in the order it makes them: each is
\* guarded by its ref being non-null (178-201)
teardown ==
    (IF scriptProcessorRef # 0 THEN << "processor.disconnect" >> ELSE <<>>)
    \o (IF audioContextRef # 0 THEN << "audioContext.close" >> ELSE <<>>)
    \o (IF streamRef # 0 THEN << "tracks.stop" >> ELSE <<>>)
    \o (IF playbackAudioContextRef # "null" THEN << "playback.close" >> ELSE <<>>)
    \o (IF wsRef # 0 THEN << "ws.close" >> ELSE <<>>)

\* disconnect() makes this release call
Releases(call) == \E i \in 1..Len(teardown) : teardown[i] = call

\* disconnect() of useWebRTC
disconnect ==
    /\ scriptProcessorRef' = 0
    /\ audioContextRef' = 0
    /\ captureLive' = IF Releases("processor.disconnect") \/ Releases("audioContext.close")
                      THEN captureLive \ {scriptProcessorRef, audioContextRef}
                      ELSE captureLive
    /\ micLive' = IF Releases("tracks.stop") THEN micLive \ {streamRef} ELSE micLive
    /\ streamRef' = 0
    /\ playbackAudioContextRef' = "null"
    \* the sources of the closed playback context are abandoned
    /\ inflight' = IF Releases("playback.close")
                   THEN { [s EXCEPT !.live = FALSE] : s \in inflight }
                   ELSE inflight
    /\ readyState' = IF Releases("ws.close") /\ wsRef # 0
                     THEN [readyState EXCEPT ![wsRef] = closed(@)]
                     ELSE readyState
    /\ wsRef' = 0
    /\ audioQueue' = <<>>
    /\ isPlaying' = FALSE
    /\ processedItems' = {}
    /\ isConnected' = FALSE
    /\ enqueued' = <<>>
    /\ started' = <<>>
    /\ UNCHANGED << sendVars, nConnect, connectPc, gainNodeRef, gainValue, isBotMuted, nChunks >>

\* a client of the hook calls disconnect()
Disconnect ==
    /\ mounted = "App"
    /\ disconnect
    /\ last' = "disconnect"
    /\ UNCHANGED << mounted, appVars, chatVars >>

\* the release calls taken to be able to throw: those of the audio graph
Throwing == { "processor.disconnect", "audioContext.close", "playback.close" }

\* disconnect() when its j-th release call throws.  disconnect() has no try
\* block (177-207): the release calls before the j-th have run and their refs
\* are null, the j-th has released nothing, and no statement after it runs.
DisconnectThrows(j) ==
    /\ mounted = "App"
    /\ j \in 1..Len(teardown)
    /\ teardown[j] \in Throwing
    /\ LET Ran(call) == \E i \in 1..(j - 1) : teardown[i] = call IN
       /\ scriptProcessorRef' = IF Ran("processor.disconnect") THEN 0
                                 ELSE scriptProcessorRef
       /\ audioContextRef' = IF Ran("audioContext.close") THEN 0 ELSE audioContextRef
       /\ captureLive' = captureLive
                           \ ( (IF Ran("processor.disconnect") THEN {scriptProcessorRef}
                                                              ELSE {})
                               \cup (IF Ran("audioContext.close") THEN {audioContextRef}
                                                                ELSE {}) )
       /\ micLive' = IF Ran("tracks.stop") THEN micLive \ {streamRef} ELSE micLive
       /\ streamRef' = IF Ran("tracks.stop") THEN 0 ELSE streamRef
       /\ playbackAudioContextRef' = IF Ran("playback.close") THEN "null"
                                      ELSE playbackAudioContextRef
       /\ inflight' = IF Ran("playback.close")
                      THEN { [s EXCEPT !.live = FALSE] : s \in inflight }
                      ELSE inflight
    /\ last' = "disconnect.throws"
    /\ UNCHANGED << sendVars, mounted, isConnected, nConnect, readyState, wsRef,
                    connectPc, processedItems, gainNodeRef, gainValue, isBotMuted,
                    audioQueue, isPlaying, nChunks, enqueued, started, appVars,
                    chatVars >>

\* ------------------------------------------------------- App: call control
\* handleStartCall up to the await inside connect() (App.tsx 36-38)
HandleStartCall ==
    /\ mounted = "App"
    /\ ~isCallActive
    /\ nConnect < MaxCalls
    /\ connect(nConnect + 1)
    /\ UNCHANGED << mounted, playVars, appVars, chatVars, last >>

\* handleStartCall after connect() returned: startListening() resolves (39-40)
StartListeningResolved(k) ==
    /\ connectPc[k] \in {"returned", "caught"}
    /\ isCallActive' = TRUE
    /\ connectPc' = [connectPc EXCEPT ![k] = "done"]
    /\ UNCHANGED << sendVars, mounted, isConnected, nConnect, readyState, wsRef, streamRef,
                    audioContextRef, scriptProcessorRef, micLive, captureLive,
                    processedItems, playVars, transcript, transcriptMap, chatVars,
                    last >>

\* handleStartCall after connect() returned: startListening() rejects (41-43)
StartListeningRejected(k) ==
    /\ connectPc[k] \in {"returned", "caught"}
    /\ connectPc' = [connectPc EXCEPT ![k] = "done"]
    /\ UNCHANGED << sendVars, mounted, isConnected, nConnect, readyState, wsRef, streamRef,
                    audioContextRef, scriptProcessorRef, micLive, captureLive,
                    processedItems, playVars, appVars, chatVars, last >>

\* handleEndCall (App.tsx 46-52)
HandleEndCall ==
    /\ mounted = "App"
    /\ isCallActive
    /\ disconnect
    /\ isCallActive' = FALSE
    /\ transcript' = <<>>
    /\ transcriptMap' = {}
    /\ UNCHANGED << mounted, chatVars, last >>

\* where a transcript entry typed by the user came from
Typed == "typed"

\* handleSendText with textInput = text (App.tsx 63-78): when the guard holds,
\* sendText(text) of the hook and an append to the transcript.  When the guard
\* fails the handler does nothing.
HandleSendText(text) ==
    /\ mounted = "App"
    /\ Truthy(Trim(text)) /\ isConnected
    /\ Len(transcript) < MaxLog
    /\ Len(sent) < MaxFrames
    /\ sent' = IF wsRef # 0 /\ readyState[wsRef] = "OPEN"
               THEN Append(sent, [ws |-> wsRef, type |-> "text", text |-> text,
                                  block |-> 0, sample |-> [n |-> 0, d |-> 1], data |-> 0])
               ELSE sent
    /\ transcript' = Append(transcript, [role |-> "user", text |-> text, item |-> Typed])
    /\ UNCHANGED << mounted, isConnected, nConnect, readyState, wsRef, connectPc,
                    streamRef, audioContextRef, scriptProcessorRef, micLive,
                    captureLive, isMuted, nBlocks, processedItems, playVars,
                    isCallActive, transcriptMap, chatVars, last >>

\* ------------------------------------------------- useWebRTC: playback queue
Source(chunk) == [chunk |-> chunk, live |-> TRUE]

\* a variant of playNextInQueue that takes the newest buffer (pop for shift)
playNextInQueuePop(q, ctx) ==
    IF q.audioQueue = <<>> \/ ctx = "null"
    THEN [q EXCEPT !.isPlaying = FALSE]
    ELSE LET n == Len(q.audioQueue) IN
         [audioQueue |-> SubSeq(q.audioQueue, 1, n - 1),
          isPlaying |-> TRUE,
          inflight |-> q.inflight \cup { Source(q.audioQueue[n]) },
          started |-> Append(q.started, q.audioQueue[n])]

\* playNextInQueue on the playback state q = [audioQueue, isPlaying, inflight,
\* started], with ctx the value of playbackAudioContextRef.current
playNextInQueue(q, ctx) ==
    IF q.audioQueue = <<>> \/ ctx = "null"
    THEN [q EXCEPT !.isPlaying = FALSE]
    ELSE [audioQueue |-> Tail(q.audioQueue),
          isPlaying |-> TRUE,
          inflight |-> q.inflight \cup { Source(Head(q.audioQueue)) },
          started |-> Append(q.started, Head(q.audioQueue))]

Playback == [audioQueue |-> audioQueue, isPlaying |-> isPlaying,
             inflight |-> inflight, started |-> started]

SetPlayback(q) ==
    /\ audioQueue' = q.audioQueue
    /\ isPlaying' = q.isPlaying
    /\ inflight' = q.inflight
    /\ started' = q.started

AudioKinds == {"pcm", "odd", "base64"}

\* ws.onmessage of socket k, data.type === "audio" with a non-empty data.audio:
\*   "base64": atob() throws, the handler's catch logs it (44-55);
\*   "odd":    an odd number of bytes, new Int16Array() throws inside playAudio;
\*   "pcm":    well-formed PCM16, decoded, queued and chained (220-273)
AudioMsg(k, kind) ==
    /\ mounted = "App"
    /\ readyState[k] = "OPEN"
    /\ kind = "pcm" => nChunks < MaxChunks
    /\ IF kind = "base64"
       THEN /\ UNCHANGED playVars
            /\ last' = "audio.base64"
       ELSE /\ playbackAudioContextRef' = "ctx"
            /\ gainNodeRef' = "gain"
            /\ gainValue' = IF isBotMuted THEN 0 ELSE 1
            /\ UNCHANGED isBotMuted
            /\ IF kind = "odd"
               THEN /\ UNCHANGED << audioQueue, isPlaying, inflight, nChunks,
                                    enqueued, started >>
                    /\ last' = "audio.odd"
               ELSE LET c == nChunks + 1
                        pushed == [Playback EXCEPT !.audioQueue = Append(@, c)]
                        q == IF ~isPlaying THEN playNextInQueue(pushed, "ctx")
                                           ELSE pushed
                    IN  /\ nChunks' = c
                        /\ enqueued' = Append(enqueued, c)
                        /\ SetPlayback(q)
                        /\ last' = "audio"
    /\ UNCHANGED << mounted, connVars, processedItems, appVars, chatVars >>

\* a variant of source.onended that does not call playNextInQueue
SourceEndedIdle(s) ==
    /\ s \in inflight
    /\ inflight' = inflight \ {s}
    /\ last' = IF s.live THEN "onended" ELSE "onended.stale"
    /\ UNCHANGED << mounted, connVars, processedItems, playbackAudioContextRef,
                    gainNodeRef, gainValue, isBotMuted, audioQueue, isPlaying,
                    nChunks, enqueued, started, appVars, chatVars >>

\* source.onended of a started source s.  A source of a playback context that
\* disconnect() closed (s.live = FALSE) still carries its handler: whether and
\* when the platform delivers its ended event is not controlled by the code.
SourceEnded(s) ==
    /\ s \in inflight
    /\ LET q == playNextInQueue([Playback EXCEPT !.inflight = @ \ {s}],
                                playbackAudioContextRef)
       IN  /\ SetPlayback(q)
           /\ last' = IF s.live THEN "onended" ELSE "onended.stale"
    /\ UNCHANGED << mounted, connVars, processedItems, playbackAudioContextRef,
                    gainNodeRef, gainValue, isBotMuted, nChunks, enqueued,
                    appVars, chatVars >>

\* a variant of setBotMuted that mutes by flushing the queued buffers
SetBotMutedFlushing(muted) ==
    /\ mounted = "App"
    /\ isBotMuted' = muted
    /\ gainValue' = IF gainNodeRef # "null" THEN (IF muted THEN 0 ELSE 1) ELSE gainValue
    /\ audioQueue' = IF muted THEN <<>> ELSE audioQueue
    /\ last' = "setBotMuted"
    /\ UNCHANGED << mounted, connVars, processedItems, playbackAudioContextRef,
                    gainNodeRef, isPlaying, inflight, nChunks, enqueued,
                    started, appVars, chatVars >>

\* setBotMuted(muted)
SetBotMuted(muted) ==
    /\ mounted = "App"
    /\ isBotMuted' = muted
    /\ gainValue' = IF gainNodeRef # "null" THEN (IF muted THEN 0 ELSE 1) ELSE gainValue
    /\ last' = "setBotMuted"
    /\ UNCHANGED << mounted, connVars, processedItems, playbackAudioContextRef,
                    gainNodeRef, audioQueue, isPlaying, inflight, nChunks, enqueued,
                    started, appVars, chatVars >>

\* ------------------------------------------- useWebRTC: outbound frames
\* a float sample is the rational n/d (d > 0)
Sample(n, d) == [n |-> n, d |-> d]
Samples == { Sample(0 - 3, 2), Sample(0 - 1, 1), Sample(1, 2), Sample(1, 1), Sample(3, 2) }

PcmScale == 32767
PcmRange == 32768

\* Math.max(-1, Math.min(1, x))
Clamp(x) == IF x.n > x.d THEN Sample(1, 1)
            ELSE IF x.n < 0 - x.d THEN Sample(0 - 1, 1)
            ELSE x

\* the integer part of n/d (d > 0), rounding toward zero
Truncate(n, d) == IF n >= 0 THEN n \div d ELSE 0 - ((0 - n) \div d)

\* the value an Int16Array element takes when v is stored in it
ToInt16(v) == ((v + PcmRange) % (2 * PcmRange)) - PcmRange

\* a variant of the conversion without the clamp
EncodeUnclamped(x) == ToInt16(Truncate(x.n * PcmScale, x.d))

\* onaudioprocess: int16Data[i] = clamp(inputData[i]) * 32767
Encode(x) == ToInt16(Truncate(Clamp(x).n * PcmScale, Clamp(x).d))

\* playAudio: float32Array[i] = int16Array[i] / 32768.0
Decode(i) == Sample(i, PcmRange)

\* the texts a client passes to sendText
SendTexts == { NoText, Hi }

TextFrame(k, text) ==
    [ws |-> k, type |-> "text", text |-> text, block |-> 0,
     sample |-> Sample(0, 1), data |-> 0]

\* sample is not part of the frame: it records the captured value
AudioFrame(k, block, x) ==
    [ws |-> k, type |-> "audio", text |-> NoText, block |-> block,
     sample |-> x, data |-> Encode(x)]

\* a variant of sendText without the readyState test
SendTextUnchecked(text) ==
    /\ mounted = "App"
    /\ Len(sent) < MaxFrames
    /\ sent' = IF wsRef # 0 THEN Append(sent, TextFrame(wsRef, text)) ELSE sent
    /\ last' = "sendText"
    /\ UNCHANGED << mounted, isConnected, nConnect, readyState, wsRef, connectPc,
                    streamRef, audioContextRef, scriptProcessorRef, micLive,
                    captureLive, isMuted, nBlocks, processedItems, playVars,
                    appVars, chatVars >>

\* sendText(text)
SendText(text) ==
    /\ mounted = "App"
    /\ Len(sent) < MaxFrames
    /\ sent' = IF wsRef # 0 /\ readyState[wsRef] = "OPEN"
               THEN Append(sent, TextFrame(wsRef, text))
               ELSE sent
    /\ last' = "sendText"
    /\ UNCHANGED << mounted, isConnected, nConnect, readyState, wsRef, connectPc,
                    streamRef, audioContextRef, scriptProcessorRef, micLive,
                    captureLive, isMuted, nBlocks, processedItems, playVars,
                    appVars, chatVars >>

\* a variant of onaudioprocess without the test of isMutedRef
CaptureUnmuted(k, x) ==
    /\ k \in captureLive
    /\ nBlocks < MaxBlocks
    /\ Len(sent) < MaxFrames
    /\ nBlocks' = nBlocks + 1
    /\ sent' = IF readyState[k] = "OPEN"
               THEN Append(sent, AudioFrame(k, nBlocks + 1, x))
               ELSE sent
    /\ last' = "onaudioprocess"
    /\ UNCHANGED << mounted, isConnected, nConnect, readyState, wsRef, connectPc,
                    streamRef, audioContextRef, scriptProcessorRef, micLive,
                    captureLive, isMuted, processedItems, playVars, appVars,
                    chatVars >>

\* processor.onaudioprocess of the processor that call k of connect() installed,
\* for a block of the sample x; ws is the socket of that call
Capture(k, x) ==
    /\ k \in captureLive
    /\ nBlocks < MaxBlocks
    /\ Len(sent) < MaxFrames
    /\ nBlocks' = nBlocks + 1
    /\ sent' = IF readyState[k] = "OPEN" /\ ~isMuted
               THEN Append(sent, AudioFrame(k, nBlocks + 1, x))
               ELSE sent
    /\ last' = "onaudioprocess"
    /\ UNCHANGED << mounted, isConnected, nConnect, readyState, wsRef, connectPc,
                    streamRef, audioContextRef, scriptProcessorRef, micLive,
                    captureLive, isMuted, processedItems, playVars, appVars,
                    chatVars >>

\* setMuted(muted)
SetMuted(muted) ==
    /\ mounted = "App"
    /\ isMuted' = muted
    /\ last' = "setMuted"
    /\ UNCHANGED << mounted, isConnected, nConnect, readyState, wsRef, connectPc,
                    streamRef, audioContextRef, scriptProcessorRef, micLive,
                    captureLive, nBlocks, sent, processedItems, playVars, appVars,
                    chatVars >>

\* ------------------------------------------------------------- AgentChat
\* addMessage on the message log (379-396); id and timestamp are not modelled
addMessage(msgs, role, content) ==
    IF Includes(content, PCC) THEN msgs
    ELSE Append(msgs, [role |-> role, content |-> content])

\* Array.prototype.join(" ") after filter(text => text.length > 0)
RECURSIVE joinTexts(_)
joinTexts(texts) ==
    IF texts = <<>> THEN NoText
    ELSE IF ~Truthy(Head(texts)) THEN joinTexts(Tail(texts))
    ELSE LET rest == joinTexts(Tail(texts)) IN
         IF Truthy(rest) THEN Head(texts) \o <<SP>> \o rest ELSE Head(texts)

\* the map callback of the assistant branches (144-150, 176-190)
assistantPartText(c) ==
    IF c.type = "text" /\ Truthy(c.text) THEN c.text
    ELSE IF c.type = "audio" /\ Truthy(c.transcript) THEN c.transcript
    ELSE IF Truthy(c.text) THEN c.text
    ELSE IF Truthy(c.transcript) THEN c.transcript
    ELSE NoText

\* the map callback of the user branch (203): c.text || c.transcript || ""
userPartText(c) == IF Truthy(c.text) THEN c.text ELSE c.transcript

assistantContent(item) ==
    joinTexts([i \in 1..Len(item.content) |-> assistantPartText(item.content[i])])

userContent(item) ==
    joinTexts([i \in 1..Len(item.content) |-> userPartText(item.content[i])])

\* What handleAgentEvent reads of the component's state.  ws.onmessage is
\* installed once, by the mount effect (32-43, 73-81), and calls the
\* handleAgentEvent of the first render: its currentAssistantMessage and
\* messages are the initial useState values for the life of the socket.
\* (The setState calls take updater functions or constants and act on the
\* current state.)
closureCurrentAssistantMessage == NoText
closureMessages == <<>>

ChatLastMessages == { NoText, Hello, <<PCC>> }
ChatTexts == { NoText, Hello }
Deltas == { NoText, <<"Hel">>, <<"lo">> }
Transcripts == { NoText, Hello, <<PCC>> }
DeltaTags == { "response.text.delta", "response.audio_transcript.delta", "transcript_delta" }
DoneTags == { "response.text.done", "response.audio_transcript.done", "transcript_done" }
\* the done tags whose handler reads event.transcript
TranscriptDoneTags == DoneTags \ { "response.text.done" }

ChatEvent ==
    /\ mounted = "AgentChat"
    /\ chatReadyState = "OPEN"
    /\ Len(messages) < MaxMessages
    /\ UNCHANGED << mounted, connVars, processedItems, playVars, appVars,
                    chatReadyState, chatIsConnected >>

\* ws.onopen (53-58)
ChatOpen ==
    /\ mounted = "AgentChat"
    /\ chatReadyState = "CONNECTING"
    /\ chatReadyState' = "OPEN"
    /\ chatIsConnected' = TRUE
    /\ agentStatus' = "Connected"
    /\ messages' = addMessage(messages, "system", <<"Connected to AI agent">>)
    /\ last' = "chat.onopen"
    /\ UNCHANGED << mounted, connVars, processedItems, playVars, appVars,
                    currentAssistantMessage >>

\* the socket closes: ws.onclose (60-65)
ChatClose ==
    /\ mounted = "AgentChat"
    /\ chatReadyState \in {"CONNECTING", "OPEN"}
    /\ Len(messages) < MaxMessages
    /\ chatReadyState' = "CLOSED"
    /\ chatIsConnected' = FALSE
    /\ agentStatus' = "Disconnected"
    /\ messages' = addMessage(messages, "system", <<"Disconnected from AI agent">>)
    /\ last' = "chat.onclose"
    /\ UNCHANGED << mounted, connVars, processedItems, playVars, appVars,
                    currentAssistantMessage >>

\* case "history_updated" (130-163)
ChatHistoryUpdated(lam, history) ==
    /\ ChatEvent
    /\ IF Truthy(lam)
       THEN /\ messages' = addMessage(messages, "assistant", lam)
            /\ currentAssistantMessage' = NoText
       ELSE LET lastItem == history[Len(history)] IN
            IF /\ Len(history) > 0
               /\ lastItem.role = "assistant"
               /\ Truthy(assistantContent(lastItem))
               /\ Truthy(Trim(assistantContent(lastItem)))
            THEN /\ messages' = addMessage(messages, "assistant", assistantContent(lastItem))
                 /\ currentAssistantMessage' = NoText
            ELSE UNCHANGED << messages, currentAssistantMessage >>
    /\ last' = IF Truthy(lam) THEN "history_updated.last" ELSE "history_updated"
    /\ UNCHANGED agentStatus

\* case "history_added" (165-215)
ChatHistoryAdded(text, item) ==
    /\ ChatEvent
    /\ IF Truthy(text)
       THEN /\ messages' = addMessage(messages, "assistant", text)
            /\ currentAssistantMessage' = NoText
       ELSE IF item.role = "assistant"
       THEN IF Truthy(assistantContent(item)) /\ Truthy(Trim(assistantContent(item)))
            THEN /\ messages' = addMessage(messages, "assistant", assistantContent(item))
                 /\ currentAssistantMessage' = NoText
            ELSE UNCHANGED << messages, currentAssistantMessage >>
       ELSE IF item.role = "user"
       THEN LET content == userContent(item)
                lastMessage == IF closureMessages = <<>> THEN [content |-> NoText]
                               ELSE closureMessages[Len(closureMessages)]
            IN  /\ messages' =
                     IF /\ Truthy(content) /\ Truthy(Trim(content))
                        /\ (closureMessages = <<>> \/ lastMessage.content # content)
                     THEN addMessage(messages, "user", content)
                     ELSE messages
                /\ UNCHANGED currentAssistantMessage
       ELSE UNCHANGED << messages, currentAssistantMessage >>
    /\ last' = "history_added"
    /\ UNCHANGED agentStatus

\* cases "response.text.delta" (217-222), "response.audio_transcript.delta"
\* (232-245) and "raw_model_event" with raw_event "transcript_delta" (262-270)
Delta(tag, delta) ==
    /\ ChatEvent
    /\ Len(currentAssistantMessage) < MaxPartial
    /\ currentAssistantMessage' =
         IF Truthy(delta) THEN currentAssistantMessage \o delta
                          ELSE currentAssistantMessage
    /\ last' = tag
    /\ UNCHANGED << messages, agentStatus >>

\* case "response.text.done" (224-230); tr is the event's transcript field,
\* which this case does not read
TextDone(tr) ==
    /\ ChatEvent
    /\ IF Truthy(closureCurrentAssistantMessage)
       THEN /\ messages' = addMessage(messages, "assistant", closureCurrentAssistantMessage)
            /\ currentAssistantMessage' = NoText
       ELSE UNCHANGED << messages, currentAssistantMessage >>
    /\ last' = "response.text.done"
    /\ UNCHANGED agentStatus

\* cases "response.audio_transcript.done" (247-258) and "raw_model_event"
\* with raw_event "transcript_done" (271-281)
TranscriptDone(tag, tr) ==
    /\ ChatEvent
    /\ LET finalText == IF Truthy(tr) THEN tr
                        ELSE closureCurrentAssistantMessage
       IN  IF Truthy(finalText)
           THEN /\ messages' = addMessage(messages, "assistant", finalText)
                /\ currentAssistantMessage' = NoText
           ELSE UNCHANGED << messages, currentAssistantMessage >>
    /\ last' = tag
    /\ UNCHANGED agentStatus

\* sendTextMessage with inputText = text (318-331), when its guard holds;
\* wsRef.current is set from the mount on.  Socket 0 stands for AgentChat's
\* socket.  When the guard fails the function returns at once.
ChatSendTextMessage(text) ==
    /\ mounted = "AgentChat"
    /\ Truthy(Trim(text)) /\ chatIsConnected
    /\ Len(messages) < MaxMessages
    /\ Len(sent) < MaxFrames
    /\ messages' = addMessage(messages, "user", text)
    /\ sent' = Append(sent, [ws |-> 0, type |-> "text", text |-> text,
                             block |-> 0, sample |-> [n |-> 0, d |-> 1], data |-> 0])
    /\ last' = "sendTextMessage"
    /\ UNCHANGED << mounted, isConnected, nConnect, readyState, wsRef, connectPc,
                    streamRef, audioContextRef, scriptProcessorRef, micLive,
                    captureLive, isMuted, nBlocks, processedItems, playVars,
                    appVars, chatReadyState, chatIsConnected, agentStatus,
                    currentAssistantMessage >>

\* a variant of ws.onmessage that reports a message it cannot parse in the log
ChatMalformedReported ==
    /\ ChatEvent
    /\ messages' = addMessage(messages, "system", <<"Connection error occurred">>)
    /\ last' = "chat.malformed"
    /\ UNCHANGED << currentAssistantMessage, agentStatus >>

\* ws.onmessage with data that JSON.parse rejects: the catch logs it (73-81)
ChatMalformed ==
    /\ ChatEvent
    /\ last' = "chat.malformed"
    /\ UNCHANGED << messages, currentAssistantMessage, agentStatus >>

\* ws.onerror (67-71)
ChatSocketError ==
    /\ mounted = "AgentChat"
    /\ chatReadyState \in {"CONNECTING", "OPEN"}
    /\ Len(messages) < MaxMessages
    /\ agentStatus' = "Error"
    /\ messages' = addMessage(messages, "system", <<"Connection error occurred">>)
    /\ last' = "chat.onerror"
    /\ UNCHANGED << mounted, connVars, processedItems, playVars, appVars,
                    chatReadyState, chatIsConnected, currentAssistantMessage >>

\* the texts of the error field of an error event
ErrorTexts == { <<"boom">>, <<PCC>> }

\* the log line of an error event: "Error: " followed by event.error (the
\* leading symbol of the template is left out)
ErrorLine(err) == <<"Error:", SP>> \o err

\* a variant of case "error" that also drops the pending partial message
ChatErrorResetting(err) ==
    /\ ChatEvent
    /\ agentStatus' = "Error"
    /\ messages' = addMessage(messages, "system", ErrorLine(err))
    /\ currentAssistantMessage' = NoText
    /\ last' = "chat.error"

\* case "error" (284-287)
ChatError(err) ==
    /\ ChatEvent
    /\ agentStatus' = "Error"
    /\ messages' = addMessage(messages, "system", ErrorLine(err))
    /\ last' = "chat.error"
    /\ UNCHANGED currentAssistantMessage

\* the names of the tools of tool_start events (function names: one token)
Tools == { "get_weather", "search" }

\* `Using tool: ${event.tool}`
ToolStatus(tool) ==
    IF tool = "get_weather" THEN "Using tool: get_weather" ELSE "Using tool: search"

\* the output field of a tool_end event: absent, text that JSON.parse rejects,
\* a JSON object without an error field, a JSON object with the error "failed"
ToolOutputs == { "absent", "unparsable", "ok", "error" }

\* case "agent_start" (92-94)
AgentStart ==
    /\ ChatEvent
    /\ agentStatus' = "Thinking..."
    /\ last' = "agent_start"
    /\ UNCHANGED << messages, currentAssistantMessage >>

\* case "agent_end" (96-98)
AgentEnd ==
    /\ ChatEvent
    /\ agentStatus' = "Ready"
    /\ last' = "agent_end"
    /\ UNCHANGED << messages, currentAssistantMessage >>

\* case "tool_start" (100-103)
ToolStart(tool) ==
    /\ ChatEvent
    /\ agentStatus' = ToolStatus(tool)
    /\ messages' = addMessage(messages, "system", <<"Calling function:", SP, tool>>)
    /\ last' = "tool_start"
    /\ UNCHANGED currentAssistantMessage

\* case "tool_end" (105-118)
ToolEnd(output) ==
    /\ ChatEvent
    /\ agentStatus' = "Processing..."
    /\ messages' = IF output = "error"
                   THEN addMessage(messages, "system", <<"Tool error:", SP, "failed">>)
                   ELSE messages
    /\ last' = "tool_end"
    /\ UNCHANGED currentAssistantMessage

\* case "audio_end" (126-128)
AudioEnd ==
    /\ ChatEvent
    /\ agentStatus' = "Ready"
    /\ last' = "audio_end"
    /\ UNCHANGED << messages, currentAssistantMessage >>

\* ------------------------------------- useWebRTC: messages without effect
\* ws.onmessage of socket k with data that JSON.parse rejects: the async
\* handler throws at its first statement (37-38)
Malformed(k) ==
    /\ mounted = "App"
    /\ readyState[k] = "OPEN"
    /\ last' = "malformed"
    /\ UNCHANGED << mounted, connVars, processedItems, playVars, appVars, chatVars >>

\* ws.onmessage of socket k, data.type === "error" (101-103)
ErrorMsg(k) ==
    /\ mounted = "App"
    /\ readyState[k] = "OPEN"
    /\ last' = "error"
    /\ UNCHANGED << mounted, connVars, processedItems, playVars, appVars, chatVars >>

\* ------------------------------------------------------- specifications
\* the callbacks of the platform: sockets and the microphone prompt
SocketCallbacks ==
    \/ \E k \in Calls : WsOpen(k)
    \/ \E k \in Calls : WsClose(k)

Callbacks ==
    \/ \E k \in Calls : GetUserMediaResolved(k)
    \/ \E k \in Calls : GetUserMediaRejected(k)
    \/ SocketCallbacks

\* App with its transcript: the user starts and ends calls, the backend sends
\* history events
NextTranscript ==
    \/ HandleStartCall
    \/ HandleEndCall
    \/ \E k \in Calls : StartListeningResolved(k)
    \/ \E k \in Calls : StartListeningRejected(k)
    \/ Callbacks
    \/ \E k \in Calls, h \in Histories : HistoryUpdated(k, NoText, h)
    \/ \E k \in Calls, lam \in LastMessages \ {NoText}, h \in LastHistories :
          HistoryUpdated(k, lam, h)
    \/ \E k \in Calls, i \in Items : HistoryAdded(k, i)
    \/ \E k \in Calls, h \in Histories \cup {ExampleHistory} : HistoryLoaded(k, h)

\* the hook with its playback queue: a client calls connect(), disconnect() and
\* setBotMuted() at any time, the backend sends audio events; the microphone
\* prompt of connect() stays unanswered
NextAudio ==
    \/ Connect
    \/ Disconnect
    \/ SocketCallbacks
    \/ \E k \in Calls, kind \in AudioKinds : AudioMsg(k, kind)
    \/ \E s \in inflight : SourceEnded(s)
    \/ \E m \in BOOLEAN : SetBotMuted(m)

\* AgentChat: the backend sends history and transcript events
NextChat ==
    \/ ChatOpen
    \/ ChatClose
    \/ \E h \in Histories : ChatHistoryUpdated(NoText, h)
    \/ \E lam \in ChatLastMessages \ {NoText}, h \in LastHistories :
          ChatHistoryUpdated(lam, h)
    \/ \E t \in ChatTexts, i \in Items : ChatHistoryAdded(t, i)
    \/ \E tag \in DeltaTags, d \in Deltas : Delta(tag, d)
    \/ \E t \in Transcripts : TextDone(t)
    \/ \E tag \in TranscriptDoneTags, t \in Transcripts :
          TranscriptDone(tag, t)

InitApp == Init /\ mounted = "App"

SpecTranscript == InitApp /\ [][NextTranscript]_vars
SpecAudio == InitApp /\ [][NextAudio]_vars
\* the hook with its connection session: a client calls connect() and
\* disconnect() at any time, the microphone prompt and the socket settle, the
\* backend sends audio events
NextConnection ==
    \/ Connect
    \/ Disconnect
    \/ Callbacks
    \/ \E k \in Calls, kind \in AudioKinds : AudioMsg(k, kind)

SpecConnection == InitApp /\ [][NextConnection]_vars

\* the hook with its outbound frames: a client calls connect(), disconnect(),
\* sendText() and setMuted() at any time, the processor delivers audio blocks
NextSend ==
    \/ (nConnect < MaxCalls /\ Connect)
    \/ Disconnect
    \/ Callbacks
    \/ \E t \in SendTexts : SendText(t)
    \/ \E k \in Calls, x \in Samples : Capture(k, x)
    \/ \E m \in BOOLEAN : SetMuted(m)

SpecSend == InitApp /\ [][NextSend]_vars
\* a session of the hook in which disconnect() is not called and the completion
\* callback of every started buffer fires
NextPlayback ==
    \/ Connect
    \/ SocketCallbacks
    \/ \E k \in Calls, kind \in AudioKinds : AudioMsg(k, kind)
    \/ \E s \in inflight : SourceEnded(s)
    \/ \E m \in BOOLEAN : SetBotMuted(m)

SpecPlayback ==
    /\ InitApp
    /\ [][NextPlayback]_vars
    /\ \A c \in 1..MaxChunks : WF_vars(SourceEnded(Source(c)))

\* the connection session on a platform whose release calls may throw
NextTeardown ==
    \/ NextConnection
    \/ \E j \in 1..Len(teardown) : DisconnectThrows(j)

SpecTeardown == InitApp /\ [][NextTeardown]_vars

\* the hook with its reconciler: a client calls connect() and disconnect() at
\* any time, the backend sends history events on any open socket
NextSession ==
    \/ Connect
    \/ Disconnect
    \/ SocketCallbacks
    \/ \E k \in Calls, i \in Items : HistoryAdded(k, i)
    \/ \E k \in Calls, h \in Histories : HistoryUpdated(k, NoText, h)

SpecSession == InitApp /\ [][NextSession]_vars

\* every operation on the log of either user interface
NextLog ==
    \/ HandleStartCall
    \/ HandleEndCall
    \/ \E k \in Calls : StartListeningResolved(k)
    \/ \E k \in Calls : StartListeningRejected(k)
    \/ Callbacks
    \/ \E k \in Calls, i \in Items : HistoryAdded(k, i)
    \/ \E t \in {NoText, Hi} : HandleSendText(t)
    \/ \E t \in {NoText, Hi} : ChatSendTextMessage(t)
    \/ NextChat
    \/ ChatSocketError
    \/ \E err \in ErrorTexts : ChatError(err)
    \/ \E tool \in Tools : ToolStart(tool)
    \/ \E output \in ToolOutputs : ToolEnd(output)

SpecLog == Init /\ [][NextLog]_vars

\* every inbound event of either user interface: the hook with one session
\* (history_added, audio, error and unparsable messages, playback callbacks)
\* and AgentChat with its status and error events
NextEvents ==
    \/ (nConnect < MaxCalls /\ Connect)
    \/ Disconnect
    \/ SocketCallbacks
    \/ \E k \in Calls, i \in Items : HistoryAdded(k, i)
    \/ \E k \in Calls, kind \in AudioKinds : AudioMsg(k, kind)
    \/ \E s \in inflight : SourceEnded(s)
    \/ \E k \in Calls : Malformed(k)
    \/ \E k \in Calls : ErrorMsg(k)
    \/ NextChat
    \/ ChatMalformed
    \/ ChatSocketError
    \/ \E err \in ErrorTexts : ChatError(err)
    \/ AgentStart
    \/ AgentEnd
    \/ \E tool \in Tools : ToolStart(tool)
    \/ \E output \in ToolOutputs : ToolEnd(output)
    \/ AudioEnd

SpecEvents == Init /\ [][NextEvents]_vars

InitChat == Init /\ mounted = "AgentChat"
SpecChat == InitChat /\ [][NextChat]_vars
\* either user interface with the reconciler it contains
SpecReconcile == Init /\ [][NextTranscript \/ NextChat]_vars

\* ================================================================== claims
\* the transcript entries that came from the history item with this id
Shown(t, id) == Cardinality({ n \in 1..Len(t) : t[n].item = id })

\* the items of the array have pairwise distinct ids and one content part each
Plain(history) ==
    /\ \A i, j \in 1..Len(history) : history[i].item_id = history[j].item_id => i = j
    /\ \A i \in 1..Len(history) : Len(history[i].content) = 1

\* C1: in App, after a history_updated (without last_assistant_message),
\* history_added or history_loaded event that carries distinct items of one
\* content part each, every carried item from which text can be extracted
\* appears exactly once in the transcript.
C1_EachItemExactlyOnce ==
    [][ /\ \A k \in Calls, h \in Histories :
             (Plain(h) /\ (HistoryUpdated(k, NoText, h) \/ HistoryLoaded(k, h)))
                => \A id \in Extractable(h) : Shown(transcript', id) = 1
        /\ \A k \in Calls, i \in Items :
             (Plain(<< i >>) /\ HistoryAdded(k, i))
                => \A id \in Extractable(<< i >>) : Shown(transcript', id) = 1 ]_vars

\* C2: a history_added event whose item has extractable text yields exactly one
\* Message (one onTranscript call) when its item_id is new, and when its item_id
\* is already in the seen set (the second delivery) it emits nothing and leaves
\* the seen set unchanged.
C2_AddedTwiceOneMessage ==
    [][ \A k \in Calls, i \in Items :
          (HistoryAdded(k, i) /\ Extractable(<< i >>) # {})
             => IF i.item_id \in processedItems
                THEN transcript' = transcript /\ processedItems' = processedItems
                ELSE Len(processHistoryItem(i)) = 1 ]_vars

Reconciled == transcript' # transcript \/ processedItems' # processedItems

C4_DeltasThenDone ==
    [][ /\ \A tag \in DeltaTags, d \in Deltas :
             Delta(tag, d) => currentAssistantMessage' = currentAssistantMessage \o d
        /\ ( /\ Truthy(currentAssistantMessage)
             /\ \/ TextDone(NoText)
                \/ \E tag \in TranscriptDoneTags : TranscriptDone(tag, NoText) )
             => /\ messages' = Append(messages, [role |-> "assistant",
                                                 content |-> currentAssistantMessage])
                /\ currentAssistantMessage' = NoText ]_vars

\* C5: in AgentChat a done event of any of the three done tags that carries a
\* non-empty transcript (one addMessage does not filter) appends exactly one
\* assistant Message with that transcript and empties the pending partial
\* message.
C5_DoneTranscriptWins ==
    [][ \A t \in Transcripts :
          ( /\ Truthy(t) /\ ~Includes(t, PCC)
            /\ \/ TextDone(t)
               \/ \E tag \in TranscriptDoneTags : TranscriptDone(tag, t) )
             => /\ messages' = Append(messages, [role |-> "assistant", content |-> t])
                /\ currentAssistantMessage' = NoText ]_vars

\* C6: in AgentChat an assistant turn that is already in the log is not appended
\* again by the next event that describes it: a history_updated with the same
\* last_assistant_message or a history_added with an item of the same text right
\* after the done event that finalized it, or the done event right after them.
LastIs(role, content) ==
    /\ messages # <<>>
    /\ messages[Len(messages)] = [role |-> role, content |-> content]

C6_TurnAppendedOnce ==
    [][ /\ \A lam \in ChatLastMessages \ {NoText}, h \in LastHistories :
             ( /\ ChatHistoryUpdated(lam, h)
               /\ last \in DoneTags
               /\ LastIs("assistant", lam) ) => messages' = messages
        /\ \A i \in Items :
             ( /\ ChatHistoryAdded(NoText, i)
               /\ last \in DoneTags
               /\ i.role = "assistant"
               /\ LastIs("assistant", assistantContent(i)) ) => messages' = messages
        /\ \A tag \in TranscriptDoneTags, t \in Transcripts \ {NoText} :
             ( /\ TranscriptDone(tag, t)
               /\ last \in {"history_updated.last", "history_updated", "history_added"}
               /\ LastIs("assistant", t) ) => messages' = messages ]_vars

\* C7: since the last disconnect(), the chunks started followed by the chunks
\* still queued are the chunks enqueued, in their order: the started chunks are a
\* prefix of the enqueued ones, none skipped, duplicated or reordered.
C7_PlaybackFifo == started \o audioQueue = enqueued

\* C7, its case: three chunks A, B, C were enqueued and started in that order.
C7_Witness == enqueued = << 1, 2, 3 >> /\ started = << 1, 2, 3 >>

\* the started buffers of the open playback context that have not completed
Playing == { s \in inflight : s.live }

\* C8: at most one buffer is playing at any time.
C8_OneBufferPlaying == Cardinality(Playing) <= 1

\* C9: disconnect() empties the queue, and the completion callback of a buffer
\* that was in flight at a disconnect(), when it runs, dequeues nothing, starts
\* no buffer and leaves the playing flag as it is.
C9_AbandonedCallbackInert ==
    [][ /\ Disconnect => audioQueue' = <<>>
        /\ \A s \in inflight :
             (~s.live /\ SourceEnded(s))
                => /\ audioQueue' = audioQueue
                   /\ started' = started
                   /\ isPlaying' = isPlaying
                   /\ inflight' = inflight \ {s} ]_vars

\* C10: setBotMuted(m) sets the gain of the playback gain node to 0 (muted) or 1
\* (unmuted) and leaves the queue, the playing flag and the started buffers as
\* they are.
C10_MuteOnlyGain ==
    [][ \A m \in BOOLEAN :
          SetBotMuted(m)
             => /\ gainNodeRef # "null" => gainValue' = (IF m THEN 0 ELSE 1)
                /\ audioQueue' = audioQueue
                /\ isPlaying' = isPlaying
                /\ inflight' = inflight
                /\ started' = started
                /\ enqueued' = enqueued ]_vars

\* C10, its case: the bot was muted while chunk B played and chunk C was queued.
C10_Witness ==
    /\ last = "setBotMuted"
    /\ isBotMuted
    /\ gainValue = 0
    /\ started = << 1, 2 >>
    /\ audioQueue = << 3 >>
    /\ Playing = { Source(2) }

\* the session is closed: the handles of the released resources are null, the
\* queue is empty, playback is not active, no id is seen, isConnected is false
\* (gainNodeRef, which holds no resource of its own, is not among them)
Closed ==
    /\ scriptProcessorRef = 0 /\ audioContextRef = 0 /\ streamRef = 0
    /\ playbackAudioContextRef = "null" /\ wsRef = 0
    /\ audioQueue = <<>> /\ ~isPlaying /\ processedItems = {} /\ ~isConnected

C12_LatePromptIgnored ==
    [][ \A k \in Calls :
          (wsRef = 0 /\ GetUserMediaResolved(k))
             => /\ streamRef' = 0 /\ audioContextRef' = 0 /\ scriptProcessorRef' = 0
                /\ micLive' = micLive
                /\ captureLive' = captureLive ]_vars

\* the calls of the sequence calls occur in the order in which order lists them
InOrder(calls, order) ==
    \A i, j \in 1..Len(calls) :
       i < j => \E m, n \in 1..Len(order) :
                  m < n /\ order[m] = calls[i] /\ order[n] = calls[j]

\* C13 as claimed: disconnect() stops capture, then closes playback, then stops
\* the microphone tracks, then closes the channel.
C13_ClaimedOrder ==
    [][ Disconnect =>
          InOrder(teardown, << "processor.disconnect", "audioContext.close",
                               "playback.close", "tracks.stop", "ws.close" >>) ]_vars

\* C13 as amended: disconnect() stops capture (disconnects the processor, closes
\* the capture context), then stops the microphone tracks, then closes playback,
\* then closes the channel, skipping the steps whose handle is null.
C13_TeardownOrder ==
    [][ Disconnect =>
          InOrder(teardown, << "processor.disconnect", "audioContext.close",
                               "tracks.stop", "playback.close", "ws.close" >>) ]_vars

\* C13, its case: disconnect() has run on the first session with its capture
\* released, its playback context closed under a started buffer and its socket
\* closing.
C13_Witness ==
    /\ last = "disconnect" /\ nConnect = 1
    /\ readyState[1] = "CLOSING"
    /\ connectPc[1] = "returned" /\ streamRef = 0 /\ micLive = {}
    /\ \E s \in inflight : ~s.live

\* C14: sendText(text) sends exactly one text frame with that text on the
\* current socket when it exists and is open, and otherwise sends nothing; it
\* changes no state of the session.
C14_SendTextOnlyWhenOpen ==
    [][ \A t \in SendTexts :
          SendText(t)
             => /\ sent' = IF wsRef # 0 /\ readyState[wsRef] = "OPEN"
                           THEN Append(sent, TextFrame(wsRef, t))
                           ELSE sent
                /\ UNCHANGED << isConnected, nConnect, readyState, wsRef, connectPc,
                                streamRef, audioContextRef, scriptProcessorRef,
                                micLive, captureLive, isMuted, nBlocks,
                                processedItems, playVars >> ]_vars

\* C14, its case: sendText sent one frame while the socket was open and nothing
\* when called again after disconnect().
C14_Witness ==
    /\ last = "sendText"
    /\ sent = << TextFrame(1, Hi) >>
    /\ wsRef = 0 /\ readyState[1] = "CLOSING"

\* the block ids of the audio frames of a sequence of frames, in order
RECURSIVE AudioBlocks(_)
AudioBlocks(frames) ==
    IF frames = <<>> THEN <<>>
    ELSE (IF Head(frames).type = "audio" THEN << Head(frames).block >> ELSE <<>>)
         \o AudioBlocks(Tail(frames))

\* C15: a captured block is sent as one audio frame if the socket of its
\* processor is open and the session is not muted at that time, and is dropped
\* otherwise; no other step sends an audio frame, so a dropped block is never
\* sent later and the audio frames are in capture order.
C15_CaptureSendsIffOpenUnmuted ==
    [][ /\ \A k \in Calls, x \in Samples :
             Capture(k, x)
                => sent' = IF readyState[k] = "OPEN" /\ ~isMuted
                           THEN Append(sent, AudioFrame(k, nBlocks + 1, x))
                           ELSE sent
        /\ \/ AudioBlocks(sent') = AudioBlocks(sent)
           \/ /\ nBlocks' = nBlocks + 1
              /\ AudioBlocks(sent') = Append(AudioBlocks(sent), nBlocks') ]_vars

\* C15, its case: the first block was captured while the session was muted or
\* the socket not open and was dropped, the second was captured later and is
\* the only audio frame sent.
C15_Witness ==
    /\ last = "onaudioprocess"
    /\ nBlocks = 2
    /\ ~isMuted
    /\ AudioBlocks(sent) = << 2 >>

\* the rationals a and b differ by at most 1/32768
WithinStep(a, b) ==
    LET diff == a.n * b.d - b.n * a.d
        abs == IF diff >= 0 THEN diff ELSE 0 - diff
    IN  abs * PcmRange <= a.d * b.d

\* C16: every audio frame sent carries, for a sample of 0.5, a value that
\* decodes to within 1/32768 of 0.5, for a sample of 1 or more the value 32767
\* and for a sample of -1 or less the value -32767.
C16_PcmRoundTrip ==
    \A i \in 1..Len(sent) :
       sent[i].type = "audio" =>
          LET x == sent[i].sample IN
          /\ x = Sample(1, 2) => WithinStep(Decode(sent[i].data), x)
          /\ x.n >= x.d => sent[i].data = PcmScale
          /\ x.n <= 0 - x.d => sent[i].data = 0 - PcmScale

\* C16, its case: frames of the samples 0.5 and 1.5 have been sent.
C16_Witness ==
    /\ \E i \in 1..Len(sent) : sent[i].type = "audio" /\ sent[i].sample = Sample(1, 2)
    /\ \E i \in 1..Len(sent) : sent[i].type = "audio" /\ sent[i].sample = Sample(3, 2)

\* C17: a history_loaded event emits a Message for every item of its array, in
\* array order and whatever the seen set holds; whenever the event can be
\* delivered, the array of the two items "1" (user, text "Hi") and "2"
\* (assistant, transcript "Hello there") yields (user, "Hi") and then
\* (ai, "Hello there").
C17_LoadedEmitsEveryItem ==
    \A k \in Calls :
       (mounted = "App" /\ readyState[k] = "OPEN")
          => loadHistory(ExampleHistory)
                = << Emit(Hi, "user", "1"), Emit(HelloThere, "ai", "2") >>

\* the ids of the items an array carries
IdsOf(history) == { history[i].item_id : i \in 1..Len(history) } \ {NoId}

\* C18: after a history_loaded event the id of every item it carried is in the
\* seen set (so that a later history_added or history_updated event emits
\* nothing for it).
C18_LoadedMarksSeen ==
    [][ \A k \in Calls, h \in Histories :
          HistoryLoaded(k, h) => IdsOf(h) \subseteq processedItems' ]_vars

\* the items of the array that carry text
WithText(history) ==
    { i \in 1..Len(history) :
        Truthy(Trim(IF history[i].role = "user" THEN userContent(history[i])
                    ELSE assistantContent(history[i]))) }

\* C19: a history_updated event without last_assistant_message is reconciled by
\* scanning its array: in AgentChat, with no item seen yet (the first event
\* after the socket opened), an array of items with distinct ids gives one
\* Message for each of its items that carry text.
C19_UpdatedScansArray ==
    [][ \A h \in Histories :
          ( /\ last = "chat.onopen"
            /\ \A i, j \in 1..Len(h) : h[i].item_id = h[j].item_id => i = j
            /\ ChatHistoryUpdated(NoText, h) )
             => Len(messages') = Len(messages) + Cardinality(WithText(h)) ]_vars

\* the extract of one content part in processHistoryItem: the transcript if it
\* has text, else the text if it has text
partExtract(c) ==
    IF Truthy(c.transcript) /\ Truthy(Trim(c.transcript)) THEN c.transcript
    ELSE IF Truthy(c.text) /\ Truthy(Trim(c.text)) THEN c.text
    ELSE NoText

\* the extracts of the parts of an item joined by single spaces and trimmed
ItemText(item) ==
    Trim(joinTexts([i \in 1..Len(item.content) |-> partExtract(item.content[i])]))

\* C20: extraction from one history item yields at most one Message, the
\* extracts of its parts joined by single spaces and trimmed, and none when
\* that text is empty: so does the history_added event of a message item whose
\* id is new.
C20_OneMessagePerItem ==
    [][ \A k \in Calls, i \in Items :
          (HistoryAdded(k, i) /\ i.item_id \notin processedItems /\ i.type = "message")
             => processHistoryItem(i) =
                  IF Truthy(ItemText(i))
                  THEN << Emit(ItemText(i), IF i.role = "user" THEN "user" ELSE "ai",
                               i.item_id) >>
                  ELSE <<>> ]_vars

\* C21: a connect() whose microphone request is rejected, or whose socket fails
\* to open, leaves isConnected false, and the failed attempt does not turn it
\* true later: the onopen of the socket of a call that ended in its catch block
\* leaves isConnected false.
C21_FailedConnectStaysDisconnected ==
    [][ \A k \in Calls :
          /\ GetUserMediaRejected(k) => ~isConnected'
          /\ (readyState[k] = "CONNECTING" /\ WsClose(k)) => ~isConnected'
          /\ (connectPc[k] = "caught" /\ WsOpen(k)) => ~isConnected' ]_vars

\* C22: a message that cannot be parsed, and an audio event whose bytes are not
\* base64 or not PCM16, change nothing of the transcript, the seen set, the
\* playback queue, the playing flag and the connection, in AgentChat nothing of
\* the log, the pending partial message, the status and the connection.  What
\* the undecodable audio event does leave behind is a playback context, and no
\* later handler depends on it: a queue that holds a buffer always has one.
C22_BadMessageDropped ==
    [][ /\ \A k \in Calls :
             (Malformed(k) \/ AudioMsg(k, "base64") \/ AudioMsg(k, "odd"))
                => UNCHANGED << connVars, processedItems, appVars, audioQueue,
                                isPlaying, inflight, nChunks, enqueued, started >>
        /\ ChatMalformed => UNCHANGED chatVars
        /\ audioQueue' # <<>> => playbackAudioContextRef' # "null" ]_vars

\* C22, its case: an undecodable audio event arrived while a buffer was playing,
\* another was queued and an item had been seen.
C22_Witness ==
    /\ last = "audio.odd"
    /\ isPlaying /\ audioQueue # <<>>
    /\ processedItems # {}

\* C23 as claimed: an error event closes no channel and changes neither the seen
\* set nor the pending partial message nor the playback queue; in AgentChat it
\* sets the status to Error and appends one system message with the error text.
C23_ErrorAppendsOne ==
    [][ /\ \A k \in Calls :
             ErrorMsg(k) => UNCHANGED << connVars, processedItems, playVars, appVars >>
        /\ \A err \in ErrorTexts :
             ChatError(err)
                => /\ UNCHANGED << chatReadyState, chatIsConnected, currentAssistantMessage >>
                   /\ agentStatus' = "Error"
                   /\ messages' = Append(messages,
                                        [role |-> "system", content |-> ErrorLine(err)])
      ]_vars

\* C23 as amended: as above, but AgentChat appends the system message unless the
\* error text includes "Previous conversation context", and then appends
\* nothing.
C23_ErrorAppendsAtMostOne ==
    [][ /\ \A k \in Calls :
             ErrorMsg(k) => UNCHANGED << connVars, processedItems, playVars, appVars >>
        /\ \A err \in ErrorTexts :
             ChatError(err)
                => /\ UNCHANGED << chatReadyState, chatIsConnected, currentAssistantMessage >>
                   /\ agentStatus' = "Error"
                   /\ messages' =
                        IF Includes(err, PCC) THEN messages
                        ELSE Append(messages,
                                    [role |-> "system", content |-> ErrorLine(err)])
      ]_vars

\* C23, its case: an error event arrived while a partial message was pending;
\* the socket is open, the partial message is kept and the error is in the log.
C23_Witness ==
    /\ last = "chat.error"
    /\ chatReadyState = "OPEN"
    /\ agentStatus = "Error"
    /\ currentAssistantMessage # NoText
    /\ LastIs("system", ErrorLine(<<"boom">>))

\* C24: in AgentChat the events agent_start, agent_end, tool_end and audio_end
\* set the status and leave the log as it is, and tool_start sets the status
\* and appends one system message with the tool's name.
C24_StatusEventsNoMessage ==
    [][ /\ (AgentStart \/ AgentEnd \/ AudioEnd \/ \E output \in ToolOutputs : ToolEnd(output))
             => messages' = messages
        /\ \A tool \in Tools :
             ToolStart(tool)
                => messages' = Append(messages,
                                     [role |-> "system",
                                      content |-> <<"Calling function:", SP, tool>>])
      ]_vars

\* chunk c is in the sequence
InSeq(c, seq) == \E i \in 1..Len(seq) : seq[i] = c

\* C25: while disconnect() is not called and completion callbacks fire, a chunk
\* enqueued while nothing plays is started at once, a completion with an empty
\* queue halts playback, a completion with a queued buffer starts it, and every
\* enqueued chunk is eventually started.
C25_EveryChunkStarted ==
    /\ [][ /\ \A k \in Calls :
                 (AudioMsg(k, "pcm") /\ ~isPlaying)
                    => isPlaying' /\ started' = Append(started, nChunks')
            /\ \A s \in inflight :
                 SourceEnded(s)
                    => IF audioQueue = <<>>
                       THEN ~isPlaying' /\ started' = started
                       ELSE isPlaying' /\ started' = Append(started, Head(audioQueue))
          ]_vars
    /\ \A c \in 1..MaxChunks : InSeq(c, enqueued) ~> InSeq(c, started)

\* C25, its case: the second chunk was enqueued while the first was playing and
\* was started by the first one's completion callback.
C25_Witness ==
    /\ last = "onended"
    /\ enqueued = << 1, 2 >> /\ started = << 1, 2 >>
    /\ Playing = { Source(2) }

\* C26: the seen set is empty after connect() and after disconnect(), loses no
\* element in between, and holds no id of another session: an event of a socket
\* that is not the current one (a socket replaced by a later connect()) records
\* nothing in it.
C26_SeenSetPerSession ==
    [][ /\ (Connect \/ Disconnect) => processedItems' = {}
        /\ ~(Connect \/ Disconnect) => processedItems \subseteq processedItems'
        /\ \A k \in Calls, i \in Items :
             (k # wsRef /\ HistoryAdded(k, i)) => processedItems' = processedItems
      ]_vars

\* log b is log a with one entry appended
Appended(a, b) == Len(b) = Len(a) + 1 /\ SubSeq(b, 1, Len(a)) = a

\* log b starts with log a
Extends(a, b) == Len(b) >= Len(a) /\ SubSeq(b, 1, Len(a)) = a

\* C27: one operation on the log (onTranscript, addMessage) leaves it as it is
\* or appends one entry at its end, so every step, which makes any number of
\* them, leaves the entries the log had in place; the only other change is
\* handleEndCall, which ends the session and empties App's transcript.
C27_LogAppendOnly ==
    [][ /\ \A text \in {Hi, Hello}, role \in {"user", "ai"}, id \in ItemIds :
             LET st == onTranscript([transcriptMap |-> transcriptMap,
                                     transcript |-> transcript], Emit(text, role, id))
             IN  st.transcript = transcript \/ Appended(transcript, st.transcript)
        /\ \A role \in {"user", "assistant", "system"}, content \in {Hello, <<PCC>>} :
             LET log == addMessage(messages, role, content)
             IN  log = messages \/ Appended(messages, log)
        /\ \/ Extends(transcript, transcript')
           \/ HandleEndCall /\ transcript' = <<>> /\ wsRef' = 0
        /\ Extends(messages, messages') ]_vars

\* C27, its case: the transcript holds an extracted entry followed by a typed
\* one.
C27_Witness ==
    /\ Len(transcript) = 2
    /\ transcript[1].item \in ItemIds
    /\ transcript[2].item = Typed

\* C28: when a release call of disconnect() throws, the later steps still run:
\* after the call the microphone tracks of the session are stopped, its socket
\* is closing or closed, the queue and the seen set are empty and isConnected
\* is false.
C28_TeardownBestEffort ==
    [][ \A j \in 1..Len(teardown) :
          DisconnectThrows(j)
             => /\ streamRef \notin micLive'
                /\ wsRef # 0 => readyState'[wsRef] \notin {"CONNECTING", "OPEN"}
                /\ audioQueue' = <<>>
                /\ processedItems' = {}
                /\ ~isConnected' ]_vars

\* C29: between handlers, isConnected is true exactly when the current socket
\* exists and is open (so no callback of a replaced or closed socket sets it).
C29_ConnectedIffOpen ==
    isConnected <=> (wsRef # 0 /\ readyState[wsRef] = "OPEN")

\* the sockets that are connecting or open
LiveSockets == { k \in Calls : readyState[k] \in {"CONNECTING", "OPEN"} }

\* C30: at most one socket, one microphone stream and one capture processor are
\* live at a time, and when disconnect() returns none is.
C30_NoOrphans ==
    /\ [](/\ Cardinality(LiveSockets) <= 1
          /\ Cardinality(micLive) <= 1
          /\ Cardinality(captureLive) <= 1)
    /\ [][ Disconnect => (LiveSockets' = {} /\ micLive' = {} /\ captureLive' = {}) ]_vars

\* C31: a text the user typed and sent is shown once: when the backend echoes
\* it as a user item in a history_added event, the log that already holds the
\* typed entry does not change.
C31_TypedTextShownOnce ==
    [][ /\ \A k \in Calls, i \in Items :
             ( /\ i.role = "user"
               /\ \E n \in 1..Len(transcript) :
                     /\ transcript[n].item = Typed
                     /\ processHistoryItem(i)
                           = << Emit(transcript[n].text, "user", i.item_id) >>
               /\ HistoryAdded(k, i) ) => transcript' = transcript
        /\ \A i \in Items :
             ( /\ i.role = "user"
               /\ last = "sendTextMessage"
               /\ LastIs("user", userContent(i))
               /\ ChatHistoryAdded(NoText, i) ) => messages' = messages ]_vars

\* C32: an id enters the seen set only when a Message is emitted for its item:
\* a history_added event whose item yields no text (nothing left after
\* trimming, or a type other than message) leaves the seen set as it is, so
\* that a later delivery of the id is still extracted.
C32_SeenOnlyIfEmitted ==
    [][ \A k \in Calls, i \in Items :
          (processHistoryItem(i) = <<>> /\ HistoryAdded(k, i))
             => processedItems' = processedItems ]_vars

\* C33: between handlers, a queue that holds a buffer implies the playing flag,
\* and the playing flag implies exactly one started buffer in flight.
C33_QueueFlagInFlight ==
    /\ audioQueue # <<>> => isPlaying
    /\ isPlaying => Cardinality(Playing) = 1

=============================================================================
